---- MODULE Spec2Model ----
(***************************************************************************)
(* NL-solar: the bounded rolling history stores (per station, per region), *)
(* the knmi_qg_regions publish loop, the knmi_to_grafana refresh timer     *)
(* and the aggregation of station rows into region rows.                   *)
(* Each entry point of the repository is a separate script; `program'      *)
(* names the one a behaviour runs.                                         *)
(***************************************************************************)
EXTENDS Integers, Sequences, FiniteSets, TLC

\* ------------------------------------------------------------------ bounds
\* Instants are counted in half seconds: 0 .. MaxTick.
MaxTick == 2
\* The largest history window size (max_points / --max-history) explored.
MaxPoints == 2

Ticks == 0..MaxTick
\* pandas NaT / a missing observation_time attribute.
NaT == -1
\* Metric payloads (qg, qg_mean).
Vals == {0, 1}
\* Entity keys, listed in sorted() order.
StationIds == <<"s1", "s2">>
RegionNames == <<"r1", "r2">>
\* A region row whose name is empty / None.
NoName == ""
\* A missing number: None, and NaN, which _maybe_float / _safe_int turn into
\* None.
Null == -1
\* Python None where a string is expected.
NoneStr == <<>>

Range(s) == {s[i] : i \in DOMAIN s}
EmptyMap == [x \in {} |-> 0]
Put(f, k, v) == [x \in (DOMAIN f) \cup {k} |-> IF x = k THEN v ELSE f[x]]
SortedKeys(order, dom) == SelectSeq(order, LAMBDA k: k \in dom)

\* ------------------------------------------------------- timestamp strings
\* datetime/Timestamp.isoformat().replace("+00:00", "Z"): the date-time fields
\* have fixed width (one digit of seconds here), the fraction is printed only
\* when it is not zero.  Strings are sequences of character codes
\* ('.' = 46, '0' = 48, 'Z' = 90).
IsoFormat(t) ==
  <<48 + (t \div 2)>> \o (IF t % 2 = 0 THEN <<>> ELSE <<46, 53>>) \o <<90>>

\* Python's str comparison (lexicographic by code point).
RECURSIVE StrLess(_, _)
StrLess(a, b) ==
  IF b = <<>> THEN FALSE
  ELSE IF a = <<>> THEN TRUE
  ELSE IF Head(a) # Head(b) THEN Head(a) < Head(b)
  ELSE StrLess(Tail(a), Tail(b))

StrLeq(a, b) == a = b \/ StrLess(a, b)

ensure_utc_iso(value) == IF value = NaT THEN NoneStr ELSE IsoFormat(value)

ensure_iso(value) == IsoFormat(value)

now_iso(now) == IsoFormat(now)

\* ------------------------------------------------------------ window steps
\* The filter left out: nothing is removed before the append.
KeepSameTime(history, obs_iso) == history

\* [h for h in history if h.get("observation_time") != obs_iso]
DropSameTime(history, obs_iso) ==
  SelectSeq(history, LAMBDA h: h.observation_time # obs_iso)

\* list.sort(key=lambda itm: itm.get("observation_time") or ""): stable, by
\* the string.
InsertSorted(s, e) ==
  LET n == Cardinality({i \in 1..Len(s) :
                          StrLeq(s[i].observation_time, e.observation_time)})
  IN SubSeq(s, 1, n) \o <<e>> \o SubSeq(s, n + 1, Len(s))

RECURSIVE SortHistory(_)
SortHistory(h) ==
  IF h = <<>> THEN <<>>
  ELSE InsertSorted(SortHistory(SubSeq(h, 1, Len(h) - 1)), h[Len(h)])

\* The truncation left out.
KeepAll(h, n) == h

\* history[-max_points:] with Python's slice semantics (-0 is 0).
LastN(h, n) ==
  LET start == IF n > 0 THEN (IF Len(h) > n THEN Len(h) - n ELSE 0)
               ELSE (IF -n < Len(h) THEN -n ELSE Len(h))
  IN SubSeq(h, start + 1, Len(h))

\* dedup, append, sort, truncate: lines 294-299 / 192-201.
Window(old, entry, mp) ==
  LastN(SortHistory(Append(DropSameTime(old, entry.observation_time), entry)), mp)

\* ------------------------------------------------------------- file values
Absent == [kind |-> "absent"]
NoneEntry == [observation_time |-> NoneStr]

\* ------------------------------------------------------- station history
StationRows == [station : Range(StationIds), observation_time : Ticks \cup {NaT},
                qg : Vals]
\* The frames _parse_dataset returns: sort_values("time") then
\* drop_duplicates(subset=station): one row per station, ascending by time,
\* rows without a time last.
TimeRank(t) == IF t = NaT THEN MaxTick + 1 ELSE t
Follows(r1) == {r \in StationRows :
                  /\ r.station # r1.station
                  /\ TimeRank(r1.observation_time) <= TimeRank(r.observation_time)}
StationFrames ==
  {<<r>> : r \in StationRows}
    \cup UNION {{<<r1, r2>> : r2 \in Follows(r1)} : r1 \in StationRows}
HasNaT(df) == \E i \in DOMAIN df : df[i].observation_time = NaT
\* The readings of datetime.now() that make a difference to the call.
Clock(df) == IF HasNaT(df) THEN Ticks ELSE {0}

\* A load that starts every cycle from an empty history.
load_nothing(file) == EmptyMap
load_station_history(file) ==
  IF file.kind = "doc" THEN file.stations ELSE EmptyMap

\* Every entry stamped with the time of ingestion instead of the row's
\* observation time.
RECURSIVE StampedRowsLoop(_, _, _, _)
StampedRowsLoop(stations, df, now, mp) ==
  IF df = <<>> THEN stations
  ELSE
    LET row == Head(df)
        entry == [observation_time |-> now_iso(now), qg |-> row.qg]
        old == IF row.station \in DOMAIN stations
               THEN stations[row.station].history ELSE <<>>
        meta == [history |-> Window(old, entry, mp), lat |-> 0, lon |-> 0]
    IN StampedRowsLoop(Put(stations, row.station, meta), Tail(df), now, mp)

\* for row in df.itertuples(): lines 276-300.
RECURSIVE StationRowsLoop(_, _, _, _)
StationRowsLoop(stations, df, now, mp) ==
  IF df = <<>> THEN stations
  ELSE
    LET row == Head(df)
        iso == ensure_utc_iso(row.observation_time)
        obs_iso == IF iso # NoneStr THEN iso ELSE now_iso(now)
        entry == [observation_time |-> obs_iso, qg |-> row.qg]
        old == IF row.station \in DOMAIN stations
               THEN stations[row.station].history ELSE <<>>
        meta == [history |-> Window(old, entry, mp), lat |-> 0, lon |-> 0]
    IN StationRowsLoop(Put(stations, row.station, meta), Tail(df), now, mp)

persist_station_history(stations) ==
  [kind |-> "doc", stations |-> stations]

\* The payload _persist_station_history serialises, generated_at included
\* (load reads back only "stations").
station_history_payload(stations, now) ==
  [stations |-> stations, generated_at |-> now_iso(now)]

persist_station_history_geojson(stations, mp) ==
  LET keys == SortedKeys(StationIds, DOMAIN stations)
      Feature(id) ==
        LET history == stations[id].history
        IN [station |-> id, history |-> history,
            latest |-> IF history # <<>> THEN history[Len(history)] ELSE NoneEntry,
            max_history |-> mp]
  IN [kind |-> "doc", features |-> [i \in 1..Len(keys) |-> Feature(keys[i])],
      max_history |-> mp]

update_station_history(file, df, now, mp) ==
  StationRowsLoop(load_station_history(file), df, now, mp)

\* -------------------------------------------------------- region history
RegionRows == [name : Range(RegionNames) \cup {NoName}, qg_mean : Vals]
RegionFrames == {<<r>> : r \in RegionRows}
                  \cup {<<r1, r2>> : r1 \in RegionRows, r2 \in RegionRows}

\* existing.get("features", []) of the parsed file, {} when it is absent.
ExistingFeatures(file) == IF file.kind = "doc" THEN file.features ELSE <<>>

\* {properties.name: feature for feature in features if properties.name}
RECURSIVE FeatureMap(_)
FeatureMap(features) ==
  IF features = <<>> THEN EmptyMap
  ELSE LET rest == FeatureMap(SubSeq(features, 1, Len(features) - 1))
           f == features[Len(features)]
       IN IF f.name # NoName THEN Put(rest, f.name, f) ELSE rest

\* row.get(column): None when the frame has no such column.
RowGet(row, column) == IF column \in DOMAIN row THEN row[column] ELSE Null
\* The history entry of a row; _maybe_float / _safe_int keep a number and
\* leave a missing one None.
history_entry(row, observation_time) ==
  [observation_time |-> observation_time,
   qg_mean |-> RowGet(row, "qg_mean"),
   wind_speed_mean |-> RowGet(row, "wind_speed_mean"),
   wind_direction_mean |-> RowGet(row, "wind_direction_mean"),
   estimated_output_mw |-> RowGet(row, "estimated_output_mw"),
   stations_count |-> RowGet(row, "stations_count")]

RECURSIVE RegionRowsLoop(_, _, _, _)
RegionRowsLoop(feature_map, regions, observation_time, mp) ==
  IF regions = <<>> THEN feature_map
  ELSE
    LET row == Head(regions)
        name == row.name
        entry == history_entry(row, observation_time)
        old == IF name \in DOMAIN feature_map THEN feature_map[name].history
               ELSE <<>>
        history == Window(old, entry, mp)
        feature == [name |-> name, history |-> history,
                    latest |-> history[Len(history)], max_history |-> mp]
    IN IF name = NoName
       THEN RegionRowsLoop(feature_map, Tail(regions), observation_time, mp)
       ELSE RegionRowsLoop(Put(feature_map, name, feature), Tail(regions),
                           observation_time, mp)

\* _derive_observation_time: the newest observation time of the frame, or the
\* clock when no row has one.
derive_observation_time(df, now) ==
  LET times == {df[i].observation_time : i \in DOMAIN df} \ {NaT}
  IN IF times # {} THEN ensure_iso(CHOOSE t \in times : \A u \in times : u <= t)
     ELSE now_iso(now)

update_region_history(file, regions, observation_time, mp) ==
  LET feature_map == RegionRowsLoop(FeatureMap(ExistingFeatures(file)), regions,
                                    observation_time, mp)
      keys == SortedKeys(RegionNames, DOMAIN feature_map)
  IN [kind |-> "doc",
      features |-> [i \in 1..Len(keys) |-> feature_map[keys[i]]],
      max_history |-> mp]

\* ------------------------------------------------------- aggregate_regions
\* Where a station lies: inside the polygon of r1 or of r2, outside every
\* polygon, or nowhere (latitude / longitude are not numbers).
Locs == {"r1", "r2", "outside", "nowhere"}
\* The metric values of a row; chosen so that every mean is an integer.
QgVals == {Null, 0, 2}
FfVals == {Null, 2}
Dirs == {10, 350}
DdVals == {Null} \cup Dirs
\* The rounding error of the floating-point sine sum, in a unit far below
\* the resolution of the tables: its sign depends on the inputs.
FloatErr == {-1, 0, 1}

ObsRowsOf(station) ==
  [station : {station}, loc : Locs, qg : QgVals, ff : FfVals, dd : DdVals,
   observation_time : {0}]
\* The frames of a cycle: no row, one row, or one row for each station.
ObsFrames ==
  {<<>>} \cup {<<r>> : r \in ObsRowsOf(StationIds[1])}
    \cup {<<r1, r2>> : r1 \in ObsRowsOf(StationIds[1]), r2 \in ObsRowsOf(StationIds[2])}

\* A region feature; NoCap when it has no solar_capacity_mw property.
NoCap == -3
Capacities == {NoCap, 1000}
RegionFeatures == [name : Range(RegionNames), capacity : Capacities]
\* The regions files: one or two features with distinct names, in any order.
RegionFiles ==
  {<<f>> : f \in RegionFeatures}
    \cup {q \in RegionFeatures \X RegionFeatures : q[1].name # q[2].name}

\* sin(d degrees) * 1000 for d = 0, 10, ..., 90.
Sin90 == <<0, 174, 342, 500, 643, 766, 866, 940, 985, 1000>>
SinT(d) ==
  LET m == (d + 720) % 360
  IN IF m <= 90 THEN Sin90[(m \div 10) + 1]
     ELSE IF m <= 180 THEN Sin90[((180 - m) \div 10) + 1]
     ELSE IF m <= 270 THEN -Sin90[((m - 180) \div 10) + 1]
     ELSE -Sin90[((360 - m) \div 10) + 1]
CosT(d) == SinT(d + 90)
\* math.degrees(math.atan2(s, c)): the angle in (-180, 180] whose direction is
\* nearest to (c, s).
AtanAngles == {10 * k : k \in -17..18}
Atan2Deg(s, c) ==
  CHOOSE d \in AtanAngles :
    \A u \in AtanAngles : s * SinT(u) + c * CosT(u) <= s * SinT(d) + c * CosT(d)

RECURSIVE SumSeq(_)
SumSeq(q) == IF q = <<>> THEN 0 ELSE Head(q) + SumSeq(Tail(q))

\* An angle: whole degrees plus the sign of what the rounding error adds.
NoAngle == [deg |-> Null, eps |-> 0]
IsNegative(a) == a.deg < 0 \/ (a.deg = 0 /\ a.eps < 0)
\* angle += 360.0: a negative angle below the spacing of the doubles at 360
\* is absorbed and the sum is 360.0.
Add360(a) == IF a.deg = 0 THEN [deg |-> 360, eps |-> 0]
             ELSE [deg |-> a.deg + 360, eps |-> a.eps]
\* What the rounding of the sines and of their sum leaves of e: the round
\* trip of one direction of Dirs, and of equal ones, is exact.
Residue(values, e) ==
  IF \A i, j \in DOMAIN values : values[i] = values[j] THEN 0 ELSE e
\* _circular_mean of the non-null directions (the means are taken as sums:
\* atan2 depends on the direction of (cos, sin) only).
circular_mean(values, e) ==
  IF values = <<>> THEN NoAngle
  ELSE LET s == SumSeq([i \in DOMAIN values |-> SinT(values[i])])
           c == SumSeq([i \in DOMAIN values |-> CosT(values[i])])
           angle == [deg |-> Atan2Deg(s, c), eps |-> Residue(values, e)]
       IN IF IsNegative(angle) THEN Add360(angle) ELSE angle

\* Series.dropna()
DropNull(q) == SelectSeq(q, LAMBDA x : x # Null)
\* A mean that counts a missing value as 0.
GroupMeanZeroFilled(q) ==
  IF q = <<>> THEN Null
  ELSE SumSeq([i \in DOMAIN q |-> IF q[i] = Null THEN 0 ELSE q[i]]) \div Len(q)
\* grouped[column].mean(): NaN when the group has no non-null value.
GroupMean(q) ==
  LET v == DropNull(q) IN IF v = <<>> THEN Null ELSE SumSeq(v) \div Len(v)
\* Series.fillna(value)
FillNa(x, value) == IF x = Null THEN value ELSE x

ValueError == [kind |-> "ValueError"]
NotRun == [kind |-> "not_run"]

\* A coordinates test that lets every row through.
ValidRowsAll(df) == df
\* dropna(subset=["lon", "lat"])
ValidRows(df) == SelectSeq(df, LAMBDA r : r.loc # "nowhere")

\* A merge that keeps only the regions that have a group.
MergeOrderInner(regions, keys) ==
  LET hit == {i \in DOMAIN regions : regions[i].name \in keys}
  IN SelectSeq([k \in DOMAIN regions |-> k], LAMBDA i : i \in hit)
\* regions.merge(agg, on="name", how="left"): every region, in file order.
MergeOrder(regions, keys) == [k \in DOMAIN regions |-> k]

aggregate_regions(df, regions, e) ==
  LET working == ValidRows(df)
      names == {regions[i].name : i \in DOMAIN regions}
      \* sjoin(how="left"): the region a station lies within, if the file has it
      Joined(r) == IF r.loc \in names THEN r.loc ELSE NoName
      Group(n) == SelectSeq(working, LAMBDA r : Joined(r) = n)
      Column(g, c) == [i \in DOMAIN g |-> g[i][c]]
      keys == {Joined(working[i]) : i \in DOMAIN working}
      has_capacity == \E i \in DOMAIN regions : regions[i].capacity # NoCap
      Row(f) ==
        LET g == IF f.name \in keys THEN Group(f.name) ELSE <<>>
            qg_mean == FillNa(GroupMean(Column(g, "qg")), 0)
            base ==
              [name |-> f.name,
               qg_mean |-> qg_mean,
               wind_speed_mean |-> FillNa(GroupMean(Column(g, "ff")), 0),
               wind_direction_mean |->
                 circular_mean(DropNull(Column(g, "dd")), e),
               stations_count |-> Cardinality({g[i].station : i \in DOMAIN g})]
            \* the regions frame has NaN where a feature lacks the property
            capacity == IF f.capacity = NoCap THEN Null ELSE f.capacity
        IN IF has_capacity
           THEN base @@ ("estimated_output_mw" :>
                           ((FillNa(capacity, 0) * qg_mean) \div 1000))
           ELSE base
      order == MergeOrder(regions, keys)
  IN IF working = <<>> THEN ValueError
     ELSE [kind |-> "frame",
           rows |-> [k \in DOMAIN order |-> Row(regions[order[k]])]]

\* ------------------------------------------------------------------- state
VARIABLES
  program,        \* the script a behaviour runs
  max_points,     \* the window size every call of the behaviour is made with
  stationJson,    \* station_metrics_history.json
  stationGeo,     \* station_metrics_history.geojson
  regionHistory,  \* qg_regions_history.geojson
  interval,       \* KNMI_REFRESH_SECONDS / --interval
  thr,            \* knmi_to_grafana: each thread's position and fetched frame
  timers,         \* knmi_to_grafana: started threading.Timer objects not yet fired
  data_lock,      \* knmi_to_grafana: _data_lock
  latest_df,      \* knmi_to_grafana: _latest_df (the cycle that produced it, 0 = empty frame)
  last_refresh,   \* knmi_to_grafana: _last_refresh (the cycle that set it, 0 = None)
  nextCycle,      \* knmi_to_grafana: fetches that have succeeded so far
  rootH,          \* knmi_to_grafana: the handler of /
  dataH,          \* knmi_to_grafana: the handler of /data
  response,       \* knmi_to_grafana: the last HTTP response built
  loop,           \* knmi_qg_regions: --loop
  history_out,    \* knmi_qg_regions: --history-out is set
  remote,         \* knmi_qg_regions: some S3 / GitHub target is configured
  lpc,            \* knmi_qg_regions: position of main / run_once
  cycle,          \* knmi_qg_regions: what the current cycle fetched
  localSnapshot,  \* knmi_qg_regions: qg_regions.geojson
  lastGood,       \* knmi_qg_regions: the snapshot file as the last cycle that
                  \*   returned normally left it
  cfg,            \* run_once: which outputs and sinks the arguments configure
  stmt,           \* run_once: the statement of RunOnceBody being executed
  sub,            \* run_once: position inside upload_github
  cycleId,        \* run_once: the cycles started so far (names the cycle's data)
  localFiles,     \* run_once: the cycle that wrote each local artifact
  s3Store,        \* run_once: the cycle whose file each S3 key holds
  ghStore,        \* run_once: version and content of each GitHub path
  sha,            \* run_once: the sha upload_github read with its GET
  printed,        \* run_once: the uploads reported on stdout in this cycle
  contacted,      \* run_once: the remote targets requests were sent for
  lastPut,        \* run_once: the last PUT request and GitHub's answer
  pubOutcome,     \* run_once: running / returned / the exception raised
  wpc,            \* history store: position of the cycle that updates the file
  mem,            \* history store: the documents the cycle is about to write
  recovered,      \* history store: the load found an unreadable document
  log,            \* history store: the lines the cycle has logged or printed
  observed,       \* history store: what a concurrent reader last read
  obs,            \* aggregation: the station frame of the cycle
  regionsFile,    \* aggregation: the features of the regions file, in file order
  out,            \* aggregation: what aggregate_regions returned or raised
  frames,         \* knmi_to_grafana: the columns assigned to each fetched frame
                  \* after its fetch, and the frame serve_data's local df names
  boot,           \* fetch_station_metrics _run: the listing, the loop, the CSV
  geocache        \* geocode: the cache table, the requests sent, the last call

histVars == <<max_points, stationJson, stationGeo, regionHistory>>
grafVars == <<thr, timers, data_lock, latest_df, last_refresh, nextCycle, rootH,
              dataH, response, frames>>
loopVars == <<loop, history_out, remote, lpc, cycle, localSnapshot, lastGood>>
pubVars == <<cfg, stmt, sub, cycleId, localFiles, s3Store, ghStore, sha, printed,
             contacted, lastPut, pubOutcome>>
storeVars == <<wpc, mem, recovered, log, observed>>
aggVars == <<obs, regionsFile, out>>
toolVars == <<boot, geocache>>
vars == <<program, interval, histVars, grafVars, loopVars, pubVars, storeVars,
          aggVars, toolVars>>

\* Outside _run and geocode neither is in use.
InitTools ==
  /\ boot = [at |-> "unused"]
  /\ geocache = [at |-> "unused"]

\* Outside the aggregation script nothing is aggregated.
InitAggregate ==
  /\ obs = <<>>
  /\ regionsFile = <<>>
  /\ out = NotRun

\* ------------------------------------------------------ knmi_to_grafana
\* The most timer threads alive at once, and the most successful fetches.
MaxTimerThreads == 2
MaxCycles == 2

MainThread == 0
Threads == 0..MaxTimerThreads
Intervals == {-1, 0, 1}

\* A body that starts the next timer before it refreshes.
TimerBodyScheduleFirst == <<"_schedule_next_refresh", "_refresh_once">>

\* A body that refreshes and never starts the next timer.
TimerBodyNoReschedule == <<"_refresh_once">>

\* _refresh_periodically: the calls it makes, in order.
TimerBody == <<"_refresh_once", "_schedule_next_refresh">>

\* _bootstrap.
BootstrapBody == <<"_refresh_once", "_schedule_next_refresh">>

Body(t) == IF t = MainThread THEN BootstrapBody ELSE TimerBody

\* Where a thread stands when it enters the call body[step], or leaves the body
\* (the main thread goes on to app.run, a timer thread ends).
Enter(t, step) ==
  IF step > Len(Body(t))
  THEN [at |-> IF t = MainThread THEN "serving" ELSE "idle", step |-> 0, df |-> 0]
  ELSE [at |-> IF Body(t)[step] = "_refresh_once" THEN "fetch" ELSE "schedule",
        step |-> step, df |-> 0]

IdleThread == [at |-> "idle", step |-> 0, df |-> 0]
NoHandler == [at |-> "idle", df |-> 0, ts |-> 0]
NoResponse == [handler |-> "none", df |-> 0, ts |-> 0, status |-> 0, body |-> <<>>]

\* root(): the status line is chosen by _latest_df.empty; always 200.
root_response(df, ts) ==
  [handler |-> "root", df |-> df, ts |-> ts, status |-> 200,
   body |-> <<[status |-> IF df # 0 THEN "OK" ELSE "Waiting", refreshed_at |-> ts]>>]

\* A handler that answers 503 while the frame is empty.
serve_data_unavailable(df, ts) ==
  [handler |-> "serve_data", df |-> df, ts |-> ts,
   status |-> IF df = 0 THEN 503 ELSE 200,
   body |-> IF df = 0 THEN <<>> ELSE <<[cycle |-> df, refreshed_at |-> ts]>>]

\* serve_data(): jsonify([]) for an empty frame, else the records of the
\* frame with the refreshed_at column; both with status 200.
serve_data_response(df, ts) ==
  [handler |-> "serve_data", df |-> df, ts |-> ts, status |-> 200,
   body |-> IF df = 0 THEN <<>> ELSE <<[cycle |-> df, refreshed_at |-> ts]>>]

\* The DataFrame objects: the frame each cycle fetched (0: the empty frame
\* the module starts with), and copies of them.
NoFrame == [object |-> "none", of |-> 0]
\* df = _latest_df: the handler's local names the stored object itself.
frame_same(c) == [object |-> "stored", of |-> c]
\* _latest_df.copy(): a new object with the content of the stored one.
frame_copy(c) == [object |-> "copy", of |-> c]
NoFrames == [columns |-> [c \in 0..MaxCycles |-> {}], serve_df |-> NoFrame]

\* The stages of _refresh_once.
RefreshStages == {"fetch", "failed", "acquire", "write_df", "write_ts", "release"}
InFlight == {t \in Threads : thr[t].at \in RefreshStages}

InitGrafana ==
  /\ thr = [t \in Threads |-> IdleThread]
  /\ timers = 0
  /\ data_lock = "free"
  /\ latest_df = 0
  /\ last_refresh = 0
  /\ nextCycle = 0
  /\ rootH = NoHandler
  /\ dataH = NoHandler
  /\ response = NoResponse
  /\ frames = NoFrames

\* ------------------------------------------------------ knmi_qg_regions
NoCycle == [t |-> 0, valid |-> FALSE, v |-> 0]

\* The stages of run_once.
RunOnceStages == {"fetch", "aggregate", "write_local", "history", "publish",
                  "returned"}

InitLoop ==
  /\ loop = FALSE
  /\ history_out = FALSE
  /\ remote = FALSE
  /\ lpc = "exit"
  /\ cycle = NoCycle
  /\ localSnapshot = Absent
  /\ lastGood = Absent

InitFiles ==
  /\ stationJson = Absent
  /\ stationGeo = Absent
  /\ regionHistory = Absent

\* ---------------------------------------------- run_once: the statements
\* The most commits other writers make to one GitHub path.
MaxVersion == 1

\* The upload statements of lines 331-358, in order.
Targets == <<"s3_snapshot", "s3_history", "s3_stations",
             "gh_snapshot", "gh_history", "gh_stations">>
\* The uploads placed before the local writes.
RunOnceBodyRemoteFirst ==
  Targets \o <<"local_snapshot", "local_history", "local_stations">>
\* The GitHub uploads placed before the S3 uploads.
RunOnceBodyGitHubFirst ==
  <<"local_snapshot", "local_history", "local_stations",
    "gh_snapshot", "gh_history", "gh_stations",
    "s3_snapshot", "s3_history", "s3_stations">>
\* run_once from line 313 on: geo.to_file, update_region_history,
\* stations_geo.to_file, then the uploads.
RunOnceBody == <<"local_snapshot", "local_history", "local_stations">> \o Targets

Artifacts == {"snapshot", "history", "stations"}
\* The local file a statement writes or uploads.
ArtifactOf(s) ==
  IF s \in {"local_snapshot", "s3_snapshot", "gh_snapshot"} THEN "snapshot"
  ELSE IF s \in {"local_history", "s3_history", "gh_history"} THEN "history"
  ELSE "stations"
IsLocal(s) == s \in {"local_snapshot", "local_history", "local_stations"}
IsS3(s) == s \in {"s3_snapshot", "s3_history", "s3_stations"}
IsGitHub(s) == s \in {"gh_snapshot", "gh_history", "gh_stations"}

\* The arguments: --history-out, --stations-out, the S3 bucket with its keys,
\* the GitHub repository with its paths, a GitHub token.
Configs == [hist : BOOLEAN, stations : BOOLEAN, s3 : BOOLEAN, gh : BOOLEAN,
            token : BOOLEAN]
\* The `if' in front of each statement.
Configured(c, s) ==
  /\ ArtifactOf(s) = "history" => c.hist
  /\ ArtifactOf(s) = "stations" => c.stations
  /\ IsS3(s) => c.s3
  /\ IsGitHub(s) => c.gh

\* A path that does not exist has version 0; a commit of another writer has
\* content Foreign.
Foreign == -1
NoSha == 0
NoPut == [target |-> "none", read |-> 0, sent |-> 0, current |-> 0,
          accepted |-> FALSE]
\* A request body that never carries the sha.
PutShaOmitted(read) == NoSha
\* if sha: payload["sha"] = sha
PutSha(read) == read
\* GitHub's contents API: an update must name the current blob, a create
\* must name none.
GitHubAccepts(current, sent) == sent = current

InitRunOnce ==
  /\ cfg = [hist |-> FALSE, stations |-> FALSE, s3 |-> FALSE, gh |-> FALSE,
            token |-> FALSE]
  /\ stmt = 0
  /\ sub = "none"
  /\ cycleId = 0
  /\ localFiles = [a \in Artifacts |-> 0]
  /\ s3Store = [a \in Artifacts |-> 0]
  /\ ghStore = [a \in Artifacts |-> [version |-> 0, content |-> 0]]
  /\ sha = NoSha
  /\ printed = {}
  /\ contacted = {}
  /\ lastPut = NoPut
  /\ pubOutcome = "idle"

\* ------------------------------------------- history store: file contents
\* Text that json.loads rejects.
Garbage == [kind |-> "garbage"]
\* JSON that is not an object, such as [] or null.
OtherJson == [kind |-> "other_json"]
\* The file between open(path, "w") and the write of the text.
Truncated == [kind |-> "truncated"]
InvalidFiles == {Garbage, OtherJson}

WriterIdle == [at |-> "idle", file |-> 0]
NoDocs == <<>>

InitStore ==
  /\ wpc = WriterIdle
  /\ mem = NoDocs
  /\ recovered = FALSE
  /\ log = <<>>
  /\ observed = "nothing"

\* --------------------------------------------------------- history stores
HistoryPrograms == {"station_history", "region_history"}

InitHistory ==
  /\ program \in HistoryPrograms
  /\ max_points \in 1..MaxPoints
  /\ interval = 0
  /\ InitFiles
  /\ InitGrafana
  /\ InitLoop
  /\ InitRunOnce
  /\ InitStore
  /\ InitAggregate
  /\ InitTools

\* One call of update_station_history (one file ingested by _run).
UpdateStationHistory ==
  /\ program = "station_history"
  /\ \E df \in StationFrames : \E now \in Clock(df) :
       LET stations == update_station_history(stationJson, df, now, max_points)
       IN /\ stationJson' = persist_station_history(stations)
          /\ stationGeo' = persist_station_history_geojson(stations, max_points)
  /\ UNCHANGED <<program, interval, max_points, regionHistory, grafVars, loopVars,
                 pubVars, storeVars, aggVars,
                 toolVars>>

\* One call of update_region_history.
UpdateRegionHistory ==
  /\ program = "region_history"
  /\ \E regions \in RegionFrames, t \in Ticks :
       regionHistory' =
         update_region_history(regionHistory, regions, IsoFormat(t), max_points)
  /\ UNCHANGED <<program, interval, max_points, stationJson, stationGeo, grafVars,
                 loopVars, pubVars, storeVars, aggVars,
                 toolVars>>

NextHistory ==
  \/ UpdateStationHistory
  \/ UpdateRegionHistory

\* The two history stores, each driven by any sequence of update calls.
SpecHistory == InitHistory /\ [][NextHistory]_vars

\* update_station_history / update_region_history called directly: max_points
\* is any non-negative number, 0 included (only the command lines clamp it).
InitDirect ==
  /\ program \in HistoryPrograms
  /\ max_points \in 0..MaxPoints
  /\ interval = 0
  /\ InitFiles
  /\ InitGrafana
  /\ InitLoop
  /\ InitRunOnce
  /\ InitStore
  /\ InitAggregate
  /\ InitTools

SpecDirect == InitDirect /\ [][NextHistory]_vars

\* ------------------------------------------- knmi_to_grafana: the actions
Graf == program = "knmi_to_grafana"
\* Requests are handled once main() has reached app.run.
Serving == Graf /\ thr[0].at = "serving"
GrafOthersUnchanged == UNCHANGED <<program, interval, histVars, loopVars,
                                   pubVars, storeVars, aggVars,
                                   toolVars>>
GrafUnchanged == GrafOthersUnchanged /\ UNCHANGED frames

\* fetch_station_metrics raises: the except branch logs the failure.
FetchFail(t) ==
  /\ Graf /\ thr[t].at = "fetch"
  /\ thr' = [thr EXCEPT ![t].at = "failed"]
  /\ UNCHANGED <<timers, data_lock, latest_df, last_refresh, nextCycle, rootH,
                 dataH, response>>
  /\ GrafUnchanged

\* ... and _refresh_once returns without touching the shared pair.
ReturnAfterFailure(t) ==
  /\ Graf /\ thr[t].at = "failed"
  /\ thr' = [thr EXCEPT ![t] = Enter(t, thr[t].step + 1)]
  /\ UNCHANGED <<timers, data_lock, latest_df, last_refresh, nextCycle, rootH,
                 dataH, response>>
  /\ GrafUnchanged

\* fetch_station_metrics returns a frame.
FetchOk(t) ==
  /\ Graf /\ thr[t].at = "fetch"
  /\ nextCycle < MaxCycles
  /\ nextCycle' = nextCycle + 1
  /\ thr' = [thr EXCEPT ![t].at = "acquire", ![t].df = nextCycle + 1]
  /\ UNCHANGED <<timers, data_lock, latest_df, last_refresh, rootH, dataH, response>>
  /\ GrafUnchanged

\* with _data_lock:
AcquireForWrite(t) ==
  /\ Graf /\ thr[t].at = "acquire"
  /\ data_lock = "free"
  /\ data_lock' = "_refresh_once"
  /\ thr' = [thr EXCEPT ![t].at = "write_df"]
  /\ UNCHANGED <<timers, latest_df, last_refresh, nextCycle, rootH, dataH, response>>
  /\ GrafUnchanged

\* _latest_df = df
WriteDf(t) ==
  /\ Graf /\ thr[t].at = "write_df"
  /\ latest_df' = thr[t].df
  /\ thr' = [thr EXCEPT ![t].at = "write_ts"]
  /\ UNCHANGED <<timers, data_lock, last_refresh, nextCycle, rootH, dataH, response>>
  /\ GrafUnchanged

\* _last_refresh = datetime.now(timezone.utc)
WriteTs(t) ==
  /\ Graf /\ thr[t].at = "write_ts"
  /\ last_refresh' = thr[t].df
  /\ thr' = [thr EXCEPT ![t].at = "release"]
  /\ UNCHANGED <<timers, data_lock, latest_df, nextCycle, rootH, dataH, response>>
  /\ GrafUnchanged

\* The with block ends, _refresh_once logs and returns.
ReleaseAfterWrite(t) ==
  /\ Graf /\ thr[t].at = "release"
  /\ data_lock' = "free"
  /\ thr' = [thr EXCEPT ![t] = Enter(t, thr[t].step + 1)]
  /\ UNCHANGED <<timers, latest_df, last_refresh, nextCycle, rootH, dataH, response>>
  /\ GrafUnchanged

\* _schedule_next_refresh: no timer when REFRESH_SECONDS <= 0.
ScheduleNextRefresh(t) ==
  /\ Graf /\ thr[t].at = "schedule"
  /\ IF interval <= 0 THEN timers' = timers
     ELSE timers < MaxTimerThreads /\ timers' = timers + 1
  /\ thr' = [thr EXCEPT ![t] = Enter(t, thr[t].step + 1)]
  /\ UNCHANGED <<data_lock, latest_df, last_refresh, nextCycle, rootH, dataH, response>>
  /\ GrafUnchanged

\* A started Timer expires: its thread runs _refresh_periodically.
TimerFires(t) ==
  /\ Graf /\ t # MainThread /\ thr[t].at = "idle"
  /\ \A u \in Threads : (u # MainThread /\ u < t) => thr[u].at # "idle"
  /\ timers > 0
  /\ timers' = timers - 1
  /\ thr' = [thr EXCEPT ![t] = Enter(t, 1)]
  /\ UNCHANGED <<data_lock, latest_df, last_refresh, nextCycle, rootH, dataH, response>>
  /\ GrafUnchanged

\* root(): `not _latest_df.empty', read without the lock.
RootReadDf ==
  /\ Serving /\ rootH.at = "idle"
  /\ rootH' = [at |-> "test_ts", df |-> latest_df, ts |-> 0]
  /\ UNCHANGED <<thr, timers, data_lock, latest_df, last_refresh, nextCycle, dataH,
                 response>>
  /\ GrafUnchanged

\* root(): `... if _last_refresh else None'.
RootTestTs ==
  /\ Serving /\ rootH.at = "test_ts"
  /\ IF last_refresh = 0
     THEN /\ response' = root_response(rootH.df, 0)
          /\ rootH' = NoHandler
     ELSE /\ rootH' = [rootH EXCEPT !.at = "read_ts"]
          /\ response' = response
  /\ UNCHANGED <<thr, timers, data_lock, latest_df, last_refresh, nextCycle, dataH>>
  /\ GrafUnchanged

\* root(): `_last_refresh.isoformat()', and the response.
RootReadTs ==
  /\ Serving /\ rootH.at = "read_ts"
  /\ response' = root_response(rootH.df, last_refresh)
  /\ rootH' = NoHandler
  /\ UNCHANGED <<thr, timers, data_lock, latest_df, last_refresh, nextCycle, dataH>>
  /\ GrafUnchanged

\* serve_data(): with _data_lock:
DataAcquire ==
  /\ Serving /\ dataH.at = "idle"
  /\ data_lock = "free"
  /\ data_lock' = "serve_data"
  /\ dataH' = [dataH EXCEPT !.at = "copy"]
  /\ UNCHANGED <<thr, timers, latest_df, last_refresh, nextCycle, rootH, response>>
  /\ GrafUnchanged

\* df = _latest_df.copy()
DataCopy ==
  /\ Serving /\ dataH.at = "copy"
  /\ dataH' = [dataH EXCEPT !.at = "read_ts", !.df = latest_df]
  /\ frames' = [frames EXCEPT !.serve_df = frame_copy(latest_df)]
  /\ UNCHANGED <<thr, timers, data_lock, latest_df, last_refresh, nextCycle, rootH,
                 response>>
  /\ GrafOthersUnchanged

\* refreshed_at = _last_refresh.isoformat() if _last_refresh else None
DataReadTs ==
  /\ Serving /\ dataH.at = "read_ts"
  /\ dataH' = [dataH EXCEPT !.at = "release", !.ts = last_refresh]
  /\ UNCHANGED <<thr, timers, data_lock, latest_df, last_refresh, nextCycle, rootH,
                 response>>
  /\ GrafUnchanged

\* The with block ends; the response is built from the two locals:
\* df["refreshed_at"] = refreshed_at assigns the column on the object df
\* names, when the frame is not empty and a refresh time was read.
DataRespond ==
  /\ Serving /\ dataH.at = "release"
  /\ data_lock' = "free"
  /\ response' = serve_data_response(dataH.df, dataH.ts)
  /\ dataH' = NoHandler
  /\ frames' =
       [columns |->
          IF dataH.df # 0 /\ dataH.ts # 0 /\ frames.serve_df.object = "stored"
          THEN [frames.columns EXCEPT ![frames.serve_df.of] = @ \cup {"refreshed_at"}]
          ELSE frames.columns,
        serve_df |-> NoFrame]
  /\ UNCHANGED <<thr, timers, latest_df, last_refresh, nextCycle, rootH>>
  /\ GrafOthersUnchanged

RefreshStep ==
  \E t \in Threads :
    \/ FetchFail(t)
    \/ ReturnAfterFailure(t)
    \/ FetchOk(t)
    \/ AcquireForWrite(t)
    \/ WriteDf(t)
    \/ WriteTs(t)
    \/ ReleaseAfterWrite(t)
    \/ ScheduleNextRefresh(t)
    \/ TimerFires(t)

HandlerStep ==
  \/ RootReadDf
  \/ RootTestTs
  \/ RootReadTs
  \/ DataAcquire
  \/ DataCopy
  \/ DataReadTs
  \/ DataRespond

\* ------------------------------------------- knmi_qg_regions: the actions
Regions == program = "knmi_qg_regions"
\* The frame aggregate_regions returns: one row per region of the file.
GeoFrame(v) == [i \in 1..Len(RegionNames) |-> [name |-> RegionNames[i], qg_mean |-> v]]
LoopUnchanged == UNCHANGED <<program, interval, max_points, stationJson, stationGeo,
                             grafVars, loop, history_out, remote, pubVars,
                             storeVars, aggVars,
                             toolVars>>

\* fetch_station_metrics returns a frame; _derive_observation_time formats its
\* newest time.
LoopFetchOk ==
  /\ Regions /\ lpc = "fetch"
  /\ \E t \in Ticks, valid \in BOOLEAN, v \in Vals :
       cycle' = [t |-> t, valid |-> valid, v |-> v]
  /\ lpc' = "aggregate"
  /\ UNCHANGED <<regionHistory, localSnapshot, lastGood>>
  /\ LoopUnchanged

\* fetch_station_metrics raises (listing, download, decoding).
LoopFetchFail ==
  /\ Regions /\ lpc = "fetch"
  /\ lpc' = "failed"
  /\ UNCHANGED <<regionHistory, cycle, localSnapshot, lastGood>>
  /\ LoopUnchanged

\* aggregate_regions: ValueError when no row has valid coordinates.
LoopAggregate ==
  /\ Regions /\ lpc = "aggregate"
  /\ lpc' = IF cycle.valid THEN "write_local" ELSE "failed"
  /\ UNCHANGED <<regionHistory, cycle, localSnapshot, lastGood>>
  /\ LoopUnchanged

\* geo.to_file(local_path)
LoopWriteLocal ==
  /\ Regions /\ lpc = "write_local"
  /\ localSnapshot' = [kind |-> "doc", observation_time |-> ensure_iso(cycle.t),
                       qg_mean |-> cycle.v]
  /\ lpc' = "history"
  /\ UNCHANGED <<regionHistory, cycle, lastGood>>
  /\ LoopUnchanged

\* if history_out: update_region_history(geo, history_path, observation_iso, max_history)
LoopHistory ==
  /\ Regions /\ lpc = "history"
  /\ regionHistory' =
       IF history_out
       THEN update_region_history(regionHistory, GeoFrame(cycle.v),
                                  ensure_iso(cycle.t), max_points)
       ELSE regionHistory
  /\ lpc' = "publish"
  /\ UNCHANGED <<cycle, localSnapshot, lastGood>>
  /\ LoopUnchanged

\* update_region_history raises (the file cannot be read or written, or holds
\* JSON of another shape).
LoopHistoryFail ==
  /\ Regions /\ lpc = "history" /\ history_out
  /\ lpc' = "failed"
  /\ UNCHANGED <<regionHistory, cycle, localSnapshot, lastGood>>
  /\ LoopUnchanged

\* The uploads of lines 331-358 all return.
LoopPublish ==
  /\ Regions /\ lpc = "publish"
  /\ lpc' = "returned"
  /\ UNCHANGED <<regionHistory, cycle, localSnapshot, lastGood>>
  /\ LoopUnchanged

\* upload_s3 / upload_github raises, or the GitHub token is missing.
LoopPublishFail ==
  /\ Regions /\ lpc = "publish" /\ remote
  /\ lpc' = "failed"
  /\ UNCHANGED <<regionHistory, cycle, localSnapshot, lastGood>>
  /\ LoopUnchanged

\* run_once returns normally.
LoopReturn ==
  /\ Regions /\ lpc = "returned"
  /\ lastGood' = localSnapshot
  /\ lpc' = "after"
  /\ cycle' = NoCycle
  /\ UNCHANGED <<regionHistory, localSnapshot>>
  /\ LoopUnchanged

\* except Exception: print("Error:", exc)
LoopCatch ==
  /\ Regions /\ lpc = "failed"
  /\ lpc' = "after"
  /\ cycle' = NoCycle
  /\ UNCHANGED <<regionHistory, localSnapshot, lastGood>>
  /\ LoopUnchanged

\* if not args.loop: break
LoopAfter ==
  /\ Regions /\ lpc = "after"
  /\ lpc' = IF loop THEN "sleep" ELSE "exit"
  /\ UNCHANGED <<regionHistory, cycle, localSnapshot, lastGood>>
  /\ LoopUnchanged

\* time.sleep(args.interval): ValueError, outside the try, for a negative
\* interval; otherwise the next iteration calls run_once.
LoopSleep ==
  /\ Regions /\ lpc = "sleep"
  /\ lpc' = IF interval < 0 THEN "crashed" ELSE "fetch"
  /\ UNCHANGED <<regionHistory, cycle, localSnapshot, lastGood>>
  /\ LoopUnchanged

LoopStep ==
  \/ LoopFetchOk
  \/ LoopFetchFail
  \/ LoopAggregate
  \/ LoopWriteLocal
  \/ LoopHistory
  \/ LoopHistoryFail
  \/ LoopPublish
  \/ LoopPublishFail
  \/ LoopReturn
  \/ LoopCatch
  \/ LoopAfter
  \/ LoopSleep

\* ------------------------------------------------------- the schedulers
InitSched ==
  /\ program \in {"knmi_to_grafana", "knmi_qg_regions"}
  /\ interval \in Intervals
  /\ InitFiles
  /\ IF program = "knmi_to_grafana"
     THEN /\ max_points = 1
          /\ thr = [t \in Threads |-> IF t = MainThread THEN Enter(t, 1) ELSE IdleThread]
          /\ timers = 0
          /\ data_lock = "free"
          /\ latest_df = 0
          /\ last_refresh = 0
          /\ nextCycle = 0
          /\ rootH = NoHandler
          /\ dataH = NoHandler
          /\ response = NoResponse
          /\ frames = NoFrames
          /\ InitLoop
     ELSE /\ max_points \in 1..MaxPoints
          /\ InitGrafana
          /\ loop \in BOOLEAN
          /\ history_out \in BOOLEAN
          /\ remote \in BOOLEAN
          /\ lpc = "fetch"
          /\ cycle = NoCycle
          /\ localSnapshot = Absent
          /\ lastGood = Absent
  /\ InitRunOnce
  /\ InitStore
  /\ InitAggregate
  /\ InitTools

NextSched ==
  \/ RefreshStep
  \/ HandlerStep
  \/ LoopStep

\* The two programs that run cycles on a schedule.
SpecSched == InitSched /\ [][NextSched]_vars

\* A refresh thread that can take its next step takes it and a started Timer
\* fires; in the loop the except handler falls through to the `--loop' test,
\* and time.sleep returns.
FairSched ==
  /\ WF_vars(RefreshStep)
  /\ WF_vars(LoopCatch)
  /\ WF_vars(LoopAfter)
  /\ WF_vars(LoopSleep)

SpecSchedFair == SpecSched /\ FairSched

\* ------------------------------------------------------------- shutdown
\* Neither script has a shutdown request of its own: each is stopped by the
\* signal that ends the process.
\* KeyboardInterrupt is raised in the main thread at the statement it is
\* executing; `except Exception' does not catch it and main is left.
LoopInterrupt ==
  /\ Regions /\ lpc \notin {"exit", "interrupted"}
  /\ lpc' = "interrupted"
  /\ UNCHANGED <<regionHistory, cycle, localSnapshot, lastGood>>
  /\ LoopUnchanged

\* app.run is interrupted and main returns: the process exits and its daemon
\* Timer threads end wherever they are.
GrafInterrupt ==
  /\ Serving
  /\ thr' = [t \in Threads |-> [thr[t] EXCEPT !.at = "killed"]]
  /\ UNCHANGED <<timers, data_lock, latest_df, last_refresh, nextCycle, rootH,
                 dataH, response>>
  /\ GrafUnchanged

NextCancel ==
  \/ NextSched
  \/ LoopInterrupt
  \/ GrafInterrupt

\* The scheduled programs, stopped at any moment.
SpecCancel == InitSched /\ [][NextCancel]_vars

\* ------------------------------------------------- run_once: the actions
RunOnce == program = "run_once"
Running == RunOnce /\ pubOutcome = "running" /\ stmt \in 1..Len(RunOnceBody)
Stmt == RunOnceBody[stmt]
PubUnchanged == UNCHANGED <<program, interval, histVars, grafVars, loopVars,
                            storeVars, aggVars, toolVars, cfg>>

\* main calls run_once: fetch_station_metrics and aggregate_regions return ...
PubStart ==
  /\ RunOnce /\ pubOutcome # "running"
  /\ cycleId < MaxCycles
  /\ cycleId' = cycleId + 1
  /\ stmt' = 1
  /\ sub' = "none"
  /\ sha' = NoSha
  /\ printed' = {}
  /\ contacted' = {}
  /\ pubOutcome' = "running"
  /\ UNCHANGED <<localFiles, s3Store, ghStore, lastPut>>
  /\ PubUnchanged

\* ... or one of them raises.
PubStartFail ==
  /\ RunOnce /\ pubOutcome # "running"
  /\ cycleId < MaxCycles
  /\ cycleId' = cycleId + 1
  /\ stmt' = 0
  /\ sub' = "none"
  /\ sha' = NoSha
  /\ printed' = {}
  /\ contacted' = {}
  /\ pubOutcome' = "fetch_failed"
  /\ UNCHANGED <<localFiles, s3Store, ghStore, lastPut>>
  /\ PubUnchanged

\* The `if' of a statement is false.
PubSkip ==
  /\ Running /\ ~Configured(cfg, Stmt)
  /\ stmt' = stmt + 1
  /\ UNCHANGED <<sub, cycleId, localFiles, s3Store, ghStore, sha, printed,
                 contacted, lastPut, pubOutcome>>
  /\ PubUnchanged

\* geo.to_file / update_region_history / stations_geo.to_file
PubLocal ==
  /\ Running /\ Configured(cfg, Stmt) /\ IsLocal(Stmt)
  /\ localFiles' = [localFiles EXCEPT ![ArtifactOf(Stmt)] = cycleId]
  /\ stmt' = stmt + 1
  /\ UNCHANGED <<sub, cycleId, s3Store, ghStore, sha, printed, contacted, lastPut,
                 pubOutcome>>
  /\ PubUnchanged

\* update_region_history raises.
PubHistoryFail ==
  /\ Running /\ Configured(cfg, Stmt) /\ Stmt = "local_history"
  /\ pubOutcome' = "history_failed"
  /\ UNCHANGED <<stmt, sub, cycleId, localFiles, s3Store, ghStore, sha, printed,
                 contacted, lastPut>>
  /\ PubUnchanged

\* upload_s3 returns: the key holds the bytes of the local file.
PubS3Ok ==
  /\ Running /\ Configured(cfg, Stmt) /\ IsS3(Stmt)
  /\ contacted' = contacted \cup {Stmt}
  /\ s3Store' = [s3Store EXCEPT ![ArtifactOf(Stmt)] = localFiles[ArtifactOf(Stmt)]]
  /\ printed' = printed \cup {Stmt}
  /\ stmt' = stmt + 1
  /\ UNCHANGED <<sub, cycleId, localFiles, ghStore, sha, lastPut, pubOutcome>>
  /\ PubUnchanged

\* upload_s3 raises RuntimeError (boto3 missing, BotoCoreError, ClientError).
PubS3Fail ==
  /\ Running /\ Configured(cfg, Stmt) /\ IsS3(Stmt)
  /\ contacted' = contacted \cup {Stmt}
  /\ pubOutcome' = "s3_failed"
  /\ UNCHANGED <<stmt, sub, cycleId, localFiles, s3Store, ghStore, sha, printed,
                 lastPut>>
  /\ PubUnchanged

\* if not upload_token: raise RuntimeError
PubGhNoToken ==
  /\ Running /\ Configured(cfg, Stmt) /\ IsGitHub(Stmt)
  /\ ~cfg.token
  /\ pubOutcome' = "no_token"
  /\ UNCHANGED <<stmt, sub, cycleId, localFiles, s3Store, ghStore, sha, printed,
                 contacted, lastPut>>
  /\ PubUnchanged

\* upload_github: the GET answers 200 with the sha, or 404 / 422.
PubGhGet ==
  /\ Running /\ Configured(cfg, Stmt) /\ IsGitHub(Stmt)
  /\ cfg.token /\ sub = "none"
  /\ contacted' = contacted \cup {Stmt}
  /\ sha' = ghStore[ArtifactOf(Stmt)].version
  /\ sub' = "put"
  /\ UNCHANGED <<stmt, cycleId, localFiles, s3Store, ghStore, printed, lastPut,
                 pubOutcome>>
  /\ PubUnchanged

\* upload_github: the GET answers another status and raise_for_status raises.
PubGhGetFail ==
  /\ Running /\ Configured(cfg, Stmt) /\ IsGitHub(Stmt)
  /\ cfg.token /\ sub = "none"
  /\ contacted' = contacted \cup {Stmt}
  /\ pubOutcome' = "gh_get_failed"
  /\ UNCHANGED <<stmt, sub, cycleId, localFiles, s3Store, ghStore, sha, printed,
                 lastPut>>
  /\ PubUnchanged

\* Another writer commits to the path between the GET and the PUT.
GhOtherCommit ==
  /\ Running /\ IsGitHub(Stmt) /\ sub = "put"
  /\ ghStore[ArtifactOf(Stmt)].content # Foreign
  /\ ghStore[ArtifactOf(Stmt)].version < MaxVersion + cycleId - 1
  /\ ghStore' = [ghStore EXCEPT ![ArtifactOf(Stmt)] =
                   [version |-> @.version + 1, content |-> Foreign]]
  /\ UNCHANGED <<stmt, sub, cycleId, localFiles, s3Store, sha, printed, contacted,
                 lastPut, pubOutcome>>
  /\ PubUnchanged

\* upload_github: the PUT, and the RuntimeError when it is not answered 200/201.
PubGhPut ==
  /\ Running /\ IsGitHub(Stmt) /\ sub = "put"
  /\ LET a == ArtifactOf(Stmt)
         current == ghStore[a].version
         sent == PutSha(sha)
         accepted == GitHubAccepts(current, sent)
     IN /\ lastPut' = [target |-> Stmt, read |-> sha, sent |-> sent,
                       current |-> current, accepted |-> accepted]
        /\ IF accepted
           THEN /\ ghStore' = [ghStore EXCEPT ![a] =
                                 [version |-> current + 1, content |-> localFiles[a]]]
                /\ printed' = printed \cup {Stmt}
                /\ stmt' = stmt + 1
                /\ pubOutcome' = pubOutcome
           ELSE /\ pubOutcome' = "gh_conflict"
                /\ UNCHANGED <<ghStore, printed, stmt>>
  /\ sub' = "none"
  /\ UNCHANGED <<cycleId, localFiles, s3Store, sha, contacted>>
  /\ PubUnchanged

\* The closing prints and `return geo, history_payload'.
PubReturn ==
  /\ RunOnce /\ pubOutcome = "running" /\ stmt = Len(RunOnceBody) + 1
  /\ pubOutcome' = "returned"
  /\ UNCHANGED <<stmt, sub, cycleId, localFiles, s3Store, ghStore, sha, printed,
                 contacted, lastPut>>
  /\ PubUnchanged

InitPublish ==
  /\ program = "run_once"
  /\ interval = 0
  /\ max_points = 1
  /\ InitFiles
  /\ InitGrafana
  /\ InitLoop
  /\ InitStore
  /\ InitAggregate
  /\ InitTools
  /\ cfg \in Configs
  /\ stmt = 0
  /\ sub = "none"
  /\ cycleId = 0
  /\ localFiles = [a \in Artifacts |-> 0]
  /\ s3Store = [a \in Artifacts |-> 0]
  /\ ghStore = [a \in Artifacts |-> [version |-> 0, content |-> 0]]
  /\ sha = NoSha
  /\ printed = {}
  /\ contacted = {}
  /\ lastPut = NoPut
  /\ pubOutcome = "idle"

NextPublish ==
  \/ PubStart
  \/ PubStartFail
  \/ PubSkip
  \/ PubLocal
  \/ PubHistoryFail
  \/ PubS3Ok
  \/ PubS3Fail
  \/ PubGhNoToken
  \/ PubGhGet
  \/ PubGhGetFail
  \/ GhOtherCommit
  \/ PubGhPut
  \/ PubReturn

\* run_once, called MaxCycles times, against S3 and a GitHub repository that
\* other writers commit to.
SpecPublish == InitPublish /\ [][NextPublish]_vars

\* ---------------------------------------------- history store: the actions
StorePrograms == {"station_store", "region_store"}
\* json.loads succeeds and the next line calls .get on a value that has none.
load_raises(file) == file.kind = "other_json"
\* json.loads raises JSONDecodeError, which the load catches.
Unreadable(file) == file.kind \in {"garbage", "truncated"}

\* The batches of the store's cycles: one row with an observation time.
StoreStationFrames == {<<r>> : r \in {x \in StationRows :
                                       x.observation_time # NaT /\ x.qg = 0}}
StoreRegionFrames == {<<r>> : r \in {x \in RegionRows :
                                      x.name # NoName /\ x.qg_mean = 0}}

\* The files a cycle of the program writes, in order.
StoreFiles == IF program = "station_store" THEN <<"stationJson", "stationGeo">>
              ELSE <<"regionHistory">>
\* The file the program loads its history from.
LoadedFile == IF program = "station_store" THEN stationJson ELSE regionHistory
FileNamed(name) == IF name = "stationJson" THEN stationJson
                   ELSE IF name = "stationGeo" THEN stationGeo
                   ELSE regionHistory
\* path.write_text: the named file takes the given content.
WriteFile(name, content) ==
  /\ stationJson' = IF name = "stationJson" THEN content ELSE stationJson
  /\ stationGeo' = IF name = "stationGeo" THEN content ELSE stationGeo
  /\ regionHistory' = IF name = "regionHistory" THEN content ELSE regionHistory
StoreUnchanged == UNCHANGED <<program, interval, max_points, grafVars, loopVars,
                              pubVars, aggVars,
                              toolVars>>

\* The load and the row loop of update_station_history / update_region_history:
\* the documents to write are computed, or the load raises.
StoreBegin ==
  /\ program \in StorePrograms /\ wpc.at \in {"idle", "failed"}
  /\ log' = <<>>
  /\ IF load_raises(LoadedFile)
     THEN /\ wpc' = [at |-> "failed", file |-> 0]
          /\ mem' = NoDocs
          /\ recovered' = FALSE
     ELSE /\ wpc' = [at |-> "open", file |-> 1]
          /\ recovered' = Unreadable(LoadedFile)
          /\ IF program = "station_store"
             THEN \E df \in StoreStationFrames :
                    LET stations ==
                          update_station_history(stationJson, df, 0, max_points)
                    IN mem' = <<persist_station_history(stations),
                                persist_station_history_geojson(stations, max_points)>>
             ELSE \E regions \in StoreRegionFrames, t \in Ticks :
                    mem' = <<update_region_history(regionHistory, regions,
                                                   IsoFormat(t), max_points)>>
  /\ UNCHANGED <<stationJson, stationGeo, regionHistory, observed>>
  /\ StoreUnchanged

\* path.write_text opens the file for writing, which empties it ...
StoreOpen ==
  /\ program \in StorePrograms /\ wpc.at = "open"
  /\ WriteFile(StoreFiles[wpc.file], Truncated)
  /\ wpc' = [wpc EXCEPT !.at = "write"]
  /\ UNCHANGED <<mem, recovered, log, observed>>
  /\ StoreUnchanged

\* ... and then writes the text; after the last file the script prints its
\* summary.
StoreWrite ==
  /\ program \in StorePrograms /\ wpc.at = "write"
  /\ WriteFile(StoreFiles[wpc.file], mem[wpc.file])
  /\ IF wpc.file < Len(StoreFiles)
     THEN /\ wpc' = [at |-> "open", file |-> wpc.file + 1]
          /\ UNCHANGED <<mem, log>>
     ELSE /\ wpc' = WriterIdle
          /\ mem' = NoDocs
          /\ log' = Append(log, "written")
  /\ UNCHANGED <<recovered, observed>>
  /\ StoreUnchanged

\* Between two cycles the history document is replaced with invalid content.
ReplaceFile ==
  /\ program \in StorePrograms /\ wpc.at \in {"idle", "failed"}
  /\ \E content \in InvalidFiles :
       WriteFile(StoreFiles[1], content)
  /\ UNCHANGED <<storeVars>>
  /\ StoreUnchanged

\* Another process (the map page, an upload) reads one of the files.
ReaderRead ==
  /\ program \in StorePrograms
  /\ \E i \in DOMAIN StoreFiles : observed' = FileNamed(StoreFiles[i]).kind
  /\ UNCHANGED <<stationJson, stationGeo, regionHistory, wpc, mem, recovered, log>>
  /\ StoreUnchanged

InitStorePrograms ==
  /\ program \in StorePrograms
  /\ interval = 0
  /\ max_points = MaxPoints
  /\ InitFiles
  /\ InitGrafana
  /\ InitLoop
  /\ InitRunOnce
  /\ InitStore
  /\ InitAggregate
  /\ InitTools

NextStore ==
  \/ StoreBegin
  \/ StoreOpen
  \/ StoreWrite
  \/ ReplaceFile
  \/ ReaderRead

\* A history store whose file is updated by cycles, read by other processes
\* and now and then replaced with invalid content.
SpecStore == InitStorePrograms /\ [][NextStore]_vars

\* ------------------------------------------- run_once: one aggregation cycle
Aggregating == program = "aggregate_cycle"
AggUnchanged == UNCHANGED <<program, interval, max_points, stationJson, stationGeo,
                            grafVars, loop, history_out, remote, cycle, lastGood,
                            storeVars, obs, regionsFile, cfg, stmt, sub, cycleId,
                            localFiles, sha, printed, contacted, lastPut,
                            pubOutcome, toolVars>>
\* observation_iso = _derive_observation_time(df)
ObservationIso == derive_observation_time(obs, 0)

\* geo = aggregate_regions(df, regions_path); a ValueError leaves run_once.
AggAggregate ==
  /\ Aggregating /\ lpc = "aggregate"
  /\ \E e \in FloatErr : out' = aggregate_regions(obs, regionsFile, e)
  /\ lpc' = IF out'.kind = "ValueError" THEN "failed" ELSE "write_local"
  /\ UNCHANGED <<localSnapshot, regionHistory, s3Store, ghStore>>
  /\ AggUnchanged

\* geo["observation_time"] = observation_iso; geo.to_file(local_path)
AggWriteLocal ==
  /\ Aggregating /\ lpc = "write_local"
  /\ localSnapshot' = [kind |-> "doc", observation_time |-> ObservationIso,
                       rows |-> out.rows]
  /\ lpc' = "history"
  /\ UNCHANGED <<out, regionHistory, s3Store, ghStore>>
  /\ AggUnchanged

\* update_region_history(geo, history_path, observation_iso, max_history)
AggHistory ==
  /\ Aggregating /\ lpc = "history"
  /\ regionHistory' = update_region_history(regionHistory, out.rows,
                                            ObservationIso, max_points)
  /\ lpc' = "publish"
  /\ UNCHANGED <<out, localSnapshot, s3Store, ghStore>>
  /\ AggUnchanged

\* The uploads of the snapshot and the history to S3 and GitHub.
AggPublish ==
  /\ Aggregating /\ lpc = "publish"
  /\ s3Store' = [a \in Artifacts |->
                   IF a \in {"snapshot", "history"} THEN cycleId ELSE s3Store[a]]
  /\ ghStore' = [a \in Artifacts |->
                   IF a \in {"snapshot", "history"}
                   THEN [version |-> ghStore[a].version + 1, content |-> cycleId]
                   ELSE ghStore[a]]
  /\ lpc' = "done"
  /\ UNCHANGED <<out, localSnapshot, regionHistory>>
  /\ AggUnchanged

InitAggregateCycle ==
  /\ program = "aggregate_cycle"
  /\ interval = 0
  /\ max_points = 1
  /\ InitFiles
  /\ InitGrafana
  /\ loop = FALSE
  /\ history_out = TRUE
  /\ remote = TRUE
  /\ lpc = "aggregate"
  /\ cycle = NoCycle
  /\ localSnapshot = Absent
  /\ lastGood = Absent
  /\ cfg = [hist |-> TRUE, stations |-> FALSE, s3 |-> TRUE, gh |-> TRUE,
            token |-> TRUE]
  /\ stmt = 0
  /\ sub = "none"
  /\ cycleId = 1
  /\ localFiles = [a \in Artifacts |-> 0]
  /\ s3Store = [a \in Artifacts |-> 0]
  /\ ghStore = [a \in Artifacts |-> [version |-> 0, content |-> 0]]
  /\ sha = NoSha
  /\ printed = {}
  /\ contacted = {}
  /\ lastPut = NoPut
  /\ pubOutcome = "idle"
  /\ InitStore
  /\ obs \in ObsFrames
  /\ regionsFile \in RegionFiles
  /\ out = NotRun
  /\ InitTools

NextAggregate ==
  \/ AggAggregate
  \/ AggWriteLocal
  \/ AggHistory
  \/ AggPublish

\* One cycle of run_once over every station frame and regions file.
SpecAggregate == InitAggregateCycle /\ [][NextAggregate]_vars

\* ------------------------------------------------------------------ geocode
\* The most requests the model lets one query send.
MaxRequests == 2

Queries == {"q1", "q2"}
Coordinates == {1, 2}
Statuses == {"OK", "NO_MATCH", "MULTIPLE", "ERROR"}
\* (None, None, None): what cached_lookup returns when the table has no row.
NoRow == [lat |-> Null, lon |-> Null, status |-> "None"]
\* What the service answers: a list of up to two hits, or the request raises.
Hits == [lat : Coordinates, lon : Coordinates]
Responses ==
  {[raised |-> TRUE, data |-> <<>>]}
    \cup {[raised |-> FALSE, data |-> d] :
            d \in {<<>>} \cup {<<h>> : h \in Hits}
                    \cup {<<h, g>> : h \in Hits, g \in {[lat |-> 2, lon |-> 2]}}}

\* The rows store_cache can have written.
CacheRows ==
  {[lat |-> h.lat, lon |-> h.lon, status |-> st] :
     h \in Hits, st \in {"OK", "MULTIPLE"}}
    \cup {[lat |-> Null, lon |-> Null, status |-> st] : st \in {"NO_MATCH", "ERROR"}}

\* SELECT lat, lon, status FROM geocode WHERE query=?
cached_lookup(table, query) == table[query]
\* A test that does not take a stored ERROR for an answer.
status_unless_error(status) == status \notin {"None", "ERROR"}
\* if status: a stored status is a non-empty string.
status_truthy(status) == status # "None"
\* The try block of geocode: the row the response gives.
geocode_row(resp) ==
  IF resp.raised THEN [lat |-> Null, lon |-> Null, status |-> "ERROR"]
  ELSE IF Len(resp.data) = 1
       THEN [lat |-> resp.data[1].lat, lon |-> resp.data[1].lon, status |-> "OK"]
  ELSE IF Len(resp.data) = 0
       THEN [lat |-> Null, lon |-> Null, status |-> "NO_MATCH"]
  ELSE [lat |-> resp.data[1].lat, lon |-> resp.data[1].lon, status |-> "MULTIPLE"]
\* INSERT OR REPLACE INTO geocode
store_cache(table, query, row) == [table EXCEPT ![query] = row]

NoCall == [query |-> "none", before |-> NoRow, returned |-> NoRow,
           contacted |-> FALSE]
Geocoding == program = "geocode"
GeoUnchanged == UNCHANGED <<program, interval, histVars, grafVars, loopVars,
                            pubVars, storeVars, aggVars, boot>>

\* geocode(query): the table has a status for the query.
GeocodeCached ==
  /\ Geocoding
  /\ \E q \in Queries :
       LET row == cached_lookup(geocache.table, q)
       IN /\ status_truthy(row.status)
          /\ geocache' = [geocache EXCEPT
               !.last = [query |-> q, before |-> geocache.table[q],
                         returned |-> row, contacted |-> FALSE]]
  /\ GeoUnchanged

\* geocode(query): no status; one request, whose outcome is stored.
GeocodeRequest ==
  /\ Geocoding
  /\ \E q \in Queries, resp \in Responses :
       LET row == cached_lookup(geocache.table, q)
           new == geocode_row(resp)
       IN /\ ~status_truthy(row.status)
          /\ geocache.requests[q] < MaxRequests
          /\ geocache' = [geocache EXCEPT
               !.table = store_cache(geocache.table, q, new),
               !.requests[q] = @ + 1,
               !.last = [query |-> q, before |-> geocache.table[q],
                         returned |-> new, contacted |-> TRUE]]
  /\ GeoUnchanged

\* run(): init_cache opens the table earlier runs have left.
InitGeocode ==
  /\ program = "geocode"
  /\ interval = 0
  /\ max_points = 1
  /\ InitFiles
  /\ InitGrafana
  /\ InitLoop
  /\ InitRunOnce
  /\ InitStore
  /\ InitAggregate
  /\ boot = [at |-> "unused"]
  /\ \E table \in [Queries -> CacheRows \cup {NoRow}] :
       geocache = [at |-> "ready", table |-> table,
                   requests |-> [q \in Queries |-> 0], last |-> NoCall]

NextGeocode ==
  \/ GeocodeCached
  \/ GeocodeRequest

\* Any sequence of geocode calls over one cache table.
SpecGeocode == InitGeocode /\ [][NextGeocode]_vars

\* ------------------------------------------- fetch_station_metrics: _run
\* The most files the KNMI listing holds.
MaxFiles == 3

\* A file of the dataset: the observation time of its rows and the stations
\* it has rows for.  The service keeps the files in the order of creation and
\* a file's name is its position in that order.
FileContents == [t : Ticks, stations : {{StationIds[1]}, Range(StationIds)}]
Services == UNION {[1..n -> FileContents] : n \in 0..MaxFiles}

\* _latest_files: the request asks for maxKeys = limit files, orderBy created,
\* sorting desc; the names of files[:limit], newest first.
latest_files(service, count) ==
  LET limit == IF count >= 1 THEN count ELSE 1
      n == Len(service)
      m == IF limit <= n THEN limit ELSE n
  IN [i \in 1..m |-> n - i + 1]

\* fetch_station_metrics(filename=name): one row per station of the file.
frame_of(file) ==
  LET ids == SortedKeys(StationIds, file.stations)
  IN [i \in 1..Len(ids) |->
        [station |-> ids[i], observation_time |-> file.t, qg |-> 0]]

NoFile == 0
Bootstrapping == program = "bootstrap"
BootUnchanged == UNCHANGED <<program, interval, max_points, regionHistory, grafVars,
                             loopVars, pubVars, storeVars, aggVars, geocache>>

\* filenames = _latest_files(api_key, bootstrap_files); RuntimeError when the
\* listing is empty.
BootList ==
  /\ Bootstrapping /\ boot.at = "list"
  /\ LET filenames == latest_files(boot.service, boot.count)
     IN boot' = [boot EXCEPT !.filenames = filenames,
                             !.i = Len(filenames),
                             !.at = IF filenames = <<>> THEN "raised" ELSE "loop"]
  /\ UNCHANGED <<stationJson, stationGeo>>
  /\ BootUnchanged

\* One pass of `for name in reversed(filenames)': the file is fetched and
\* update_station_history ingests it.
BootIngest ==
  /\ Bootstrapping /\ boot.at = "loop" /\ boot.i >= 1
  /\ LET name == boot.filenames[boot.i]
         df == frame_of(boot.service[name])
         stations == update_station_history(stationJson, df, 0, max_points)
     IN /\ stationJson' = persist_station_history(stations)
        /\ stationGeo' = persist_station_history_geojson(stations, max_points)
        /\ boot' = [boot EXCEPT
             !.fed = Append(@, name),
             !.latest_df = IF name = boot.filenames[1] THEN name ELSE @,
             !.i = @ - 1]
  /\ BootUnchanged

\* fetch_station_metrics raises inside the loop: _run and main are left.
BootFetchFail ==
  /\ Bootstrapping /\ boot.at = "loop" /\ boot.i >= 1
  /\ boot' = [boot EXCEPT !.at = "raised"]
  /\ UNCHANGED <<stationJson, stationGeo>>
  /\ BootUnchanged

\* latest_df.to_csv(output)
BootWriteCsv ==
  /\ Bootstrapping /\ boot.at = "loop" /\ boot.i = 0
  /\ boot' = [boot EXCEPT !.csv = boot.latest_df, !.at = "done"]
  /\ UNCHANGED <<stationJson, stationGeo>>
  /\ BootUnchanged

InitBootstrap ==
  /\ program = "bootstrap"
  /\ interval = 0
  /\ max_points \in 1..MaxPoints
  /\ InitFiles
  /\ InitGrafana
  /\ InitLoop
  /\ InitRunOnce
  /\ InitStore
  /\ InitAggregate
  /\ geocache = [at |-> "unused"]
  /\ \E service \in Services, count \in 1..MaxFiles :
       boot = [at |-> "list", service |-> service, count |-> count,
               filenames |-> <<>>, i |-> 0, fed |-> <<>>, latest_df |-> NoFile,
               csv |-> NoFile]

NextBootstrap ==
  \/ BootList
  \/ BootIngest
  \/ BootFetchFail
  \/ BootWriteCsv

\* One run of fetch_station_metrics.py over an empty history.
SpecBootstrap == InitBootstrap /\ [][NextBootstrap]_vars

\* ---------------------------------------------------- reading the documents
\* The instant a timestamp string denotes.
InstantOf(str) == CHOOSE t \in Ticks : IsoFormat(t) = str
Instants(w) == {InstantOf(w[i].observation_time) : i \in DOMAIN w}
SetMin(S) == CHOOSE x \in S : \A y \in S : x <= y
SetMax(S) == CHOOSE x \in S : \A y \in S : y <= x

StationsOf(file) == load_station_history(file)
StationJsonWindows == {StationsOf(stationJson)[s].history :
                         s \in DOMAIN StationsOf(stationJson)}
StationGeoWindows == {f.history : f \in Range(ExistingFeatures(stationGeo))}
RegionWindows == {f.history : f \in Range(ExistingFeatures(regionHistory))}
AllWindows == StationJsonWindows \cup StationGeoWindows \cup RegionWindows

StationEntries == [observation_time : {IsoFormat(t) : t \in Ticks}, qg : Vals]
RegionEntries == {history_entry([qg_mean |-> v], IsoFormat(t)) :
                    v \in Vals, t \in Ticks}
CountAt(w, iso) == Cardinality({i \in DOMAIN w : w[i].observation_time = iso})

\* ------------------------------------------------------------------ claims
\* C1: with one max_points = N >= 1 for all calls, starting from absent
\* documents, every window of every persisted document has length <= N.
C1_WindowBounded == \A w \in AllWindows : Len(w) <= max_points

\* A window that N updates have filled, for the largest N.
C1_Witness ==
  /\ max_points = MaxPoints
  /\ \E w \in StationJsonWindows \cup RegionWindows : Len(w) = max_points

\* C2: no window holds two entries with the same timestamp, and an update at
\* the timestamp of an existing entry replaces that entry (same length, the
\* one entry at that timestamp is the new one).
C2_NoDuplicateTimestamps ==
  /\ \A w \in AllWindows : \A i, j \in DOMAIN w :
       w[i].observation_time = w[j].observation_time => i = j
  /\ \A w \in StationJsonWindows : \A e \in StationEntries :
       CountAt(w, e.observation_time) > 0 =>
         LET w2 == Window(w, e, max_points)
         IN /\ Len(w2) = Len(w)
            /\ CountAt(w2, e.observation_time) = 1
            /\ e \in Range(w2)
  /\ \A w \in RegionWindows : \A e \in RegionEntries :
       CountAt(w, e.observation_time) > 0 =>
         LET w2 == Window(w, e, max_points)
         IN /\ Len(w2) = Len(w)
            /\ CountAt(w2, e.observation_time) = 1
            /\ e \in Range(w2)

\* A window of two entries, one of which a later update can replace.
C2_Witness ==
  \E w \in StationJsonWindows \cup RegionWindows :
    /\ Len(w) = 2
    /\ w[1].observation_time # w[2].observation_time

\* C3: after every update each window is sorted ascending by timestamp (by
\* the instants the timestamps denote), whatever the arrival order.
C3_SortedByTime ==
  \A w \in AllWindows : \A i, j \in DOMAIN w :
    i < j => InstantOf(w[i].observation_time) < InstantOf(w[j].observation_time)

NewerThan(w, iso) == {i \in DOMAIN w : StrLess(iso, w[i].observation_time)}

\* C4 (amended): for every prior state and every batch whose rows all carry
\* an observation time, a second run of the same update (at a later clock
\* reading) changes no window;
\* each entity holds at most one entry at a row's timestamp T, and a one-row
\* batch leaves exactly one unless max_points entries of the window sort after T.
TimedFrames == {df \in StationFrames : ~HasNaT(df)}

C5_EvictsOldest ==
  /\ \A w \in StationJsonWindows : \A e \in StationEntries :
       (Len(w) = max_points /\ CountAt(w, e.observation_time) = 0) =>
         LET all == Instants(w) \cup {InstantOf(e.observation_time)}
         IN Instants(Window(w, e, max_points)) = all \ {SetMin(all)}
  /\ \A w \in RegionWindows : \A e \in RegionEntries :
       (Len(w) = max_points /\ CountAt(w, e.observation_time) = 0) =>
         LET all == Instants(w) \cup {InstantOf(e.observation_time)}
         IN Instants(Window(w, e, max_points)) = all \ {SetMin(all)}

\* C6: every entity record of the station JSON, the station GeoJSON and the
\* region GeoJSON carries `latest', the entry of its window with the highest
\* timestamp.
IsLatestOf(rec) ==
  /\ "latest" \in DOMAIN rec
  /\ rec.history # <<>> =>
       /\ rec.latest \in Range(rec.history)
       /\ InstantOf(rec.latest.observation_time) = SetMax(Instants(rec.history))

C6_LatestIsNewest ==
  /\ \A s \in DOMAIN StationsOf(stationJson) : IsLatestOf(StationsOf(stationJson)[s])
  /\ \A f \in Range(ExistingFeatures(stationGeo)) : IsLatestOf(f)
  /\ \A f \in Range(ExistingFeatures(regionHistory)) : IsLatestOf(f)

\* C7: at most one cycle is in flight.  knmi_to_grafana: at most one thread
\* is inside _refresh_once; knmi_qg_regions: run_once is entered again only
\* from time.sleep, after the previous call has returned or raised.
C7_SingleFlight ==
  /\ [](Cardinality(InFlight) <= 1)
  /\ [][(lpc' = "fetch" /\ lpc # "fetch") => lpc = "sleep"]_vars

\* A timer thread is refreshing while the main thread serves requests.
C7_Witness ==
  /\ thr[MainThread].at = "serving"
  /\ \E t \in Threads : t # MainThread /\ thr[t].at \in {"acquire", "write_df"}

\* C8: no response is built from a snapshot of one cycle and a refresh
\* timestamp of another.
C8_ResponseFromOneCycle == response.df = response.ts

\* C9: when a cycle has failed, the published snapshot is the one the last
\* successful cycle left (knmi_qg_regions), and the snapshot/timestamp pair is
\* that of one cycle (knmi_to_grafana).
C9_FailureKeepsLastGood ==
  /\ lpc = "failed" => localSnapshot = lastGood
  /\ \A t \in Threads : thr[t].at = "failed" => latest_df = last_refresh

\* C10: with looping enabled (REFRESH_SECONDS > 0; --loop with an interval
\* time.sleep accepts), every failed cycle is followed by the start of a next
\* cycle.
C10_FailureNotTerminal ==
  /\ \A t \in Threads :
       (Graf /\ interval > 0 /\ thr[t].at = "failed")
         ~> (\E u \in Threads : thr[u].at = "fetch")
  /\ (Regions /\ loop /\ interval >= 0 /\ lpc = "failed") ~> (lpc = "fetch")

\* Every fetch so far has failed, and a timer thread has started the next one.
C10_Witness ==
  /\ nextCycle = 0
  /\ \E t \in Threads : t # MainThread /\ thr[t].at = "fetch"

\* The statements of run_once that write to a remote sink and are configured.
RemoteStmts == {i \in 1..Len(RunOnceBody) :
                  ~IsLocal(RunOnceBody[i]) /\ Configured(cfg, RunOnceBody[i])}
SinkFailures == {"s3_failed", "no_token", "gh_get_failed", "gh_conflict"}

\* C11: when one sink write of a cycle has failed, every other configured
\* sink target has still been written in that cycle.
C11_SinksIndependent ==
  pubOutcome \in SinkFailures =>
    \A i \in RemoteStmts : i # stmt => RunOnceBody[i] \in printed

LocalWritten ==
  /\ localFiles["snapshot"] = cycleId
  /\ cfg.hist => localFiles["history"] = cycleId

\* C16: once a remote sink has been contacted the local snapshot and, when
\* configured, the local history are already this cycle's; and they are this
\* cycle's at the end of the cycle whatever the uploads did.
C16_LocalBeforeRemote ==
  /\ contacted # {} => LocalWritten
  /\ pubOutcome \in SinkFailures \cup {"returned"} => LocalWritten

\* A second cycle whose first upload fails, with a history file configured.
C16_Witness ==
  /\ pubOutcome = "s3_failed"
  /\ cfg.hist
  /\ cycleId = 2
  /\ localFiles["history"] = 2

\* C17: a PUT is sent only after the GET of the same path; it carries the sha
\* the GET returned (none for an absent path); a PUT for an absent path is
\* accepted as a create; a PUT with a stale sha is rejected, the error is
\* raised and the other writer's content stays.
C17_ConditionalWrite ==
  /\ sub = "put" => Stmt \in contacted
  /\ lastPut # NoPut =>
       /\ lastPut.sent = lastPut.read
       /\ (lastPut.read = NoSha /\ lastPut.current = 0) => lastPut.accepted
       /\ lastPut.read # lastPut.current => ~lastPut.accepted
  /\ pubOutcome = "gh_conflict" =>
       /\ ~lastPut.accepted
       /\ ghStore[ArtifactOf(Stmt)].content = Foreign

\* An update of an existing path that carried its sha and was accepted.
C17_Witness ==
  /\ lastPut # NoPut
  /\ lastPut.read > 0
  /\ lastPut.accepted

\* The windows of the document a store cycle is about to write.
MemWindows ==
  IF mem = NoDocs THEN {}
  ELSE IF program = "station_store"
       THEN {StationsOf(mem[1])[st].history : st \in DOMAIN StationsOf(mem[1])}
       ELSE {f.history : f \in Range(ExistingFeatures(mem[1]))}

\* C13: no content of the history file makes the cycle fail, and a cycle
\* that found the file unreadable writes single-entry histories.
C13_CorruptHistoryRecovers ==
  /\ wpc.at # "failed"
  /\ recovered => \A w \in MemWindows : Len(w) = 1

\* C14: a cycle that reset an unreadable history document to empty state has
\* logged a warning.
C14_RecoveryLogsWarning ==
  recovered => \E i \in DOMAIN log : log[i] = "warning"

\* C15: a reader of a history file never reads the empty or half-written
\* file of a persist in progress.
C15_PersistAtomic == observed # "truncated"

\* C18: repeating a cycle with the same observations and regions leaves the
\* stored documents equal to what the first run left: the station history
\* payload, and the region history under the cycle's observation time.
C18_PublishIdempotent ==
  /\ \A df \in StationFrames : \A now1 \in Ticks, now2 \in Ticks :
       now1 <= now2 =>
         LET once == update_station_history(stationJson, df, now1, max_points)
             twice == update_station_history(persist_station_history(once), df,
                                             now2, max_points)
         IN station_history_payload(twice, now2) = station_history_payload(once, now1)
  /\ \A df \in StationFrames : \A now1 \in Ticks, now2 \in Ticks :
       now1 <= now2 =>
         \A regions \in RegionFrames :
           LET once == update_region_history(regionHistory, regions,
                         derive_observation_time(df, now1), max_points)
               twice == update_region_history(once, regions,
                          derive_observation_time(df, now2), max_points)
           IN twice = once

\* C19: with REFRESH_SECONDS <= 0 no timer is ever started and no thread but
\* the main thread refreshes; with --interval 0 or without --loop run_once is
\* not called a second time.
C19_ZeroIntervalSingleShot ==
  /\ []((Graf /\ interval <= 0) =>
          (timers = 0 /\ \A t \in Threads : t # MainThread => thr[t].at = "idle"))
  /\ [][(Regions /\ (interval = 0 \/ ~loop)) => ~(lpc = "sleep" /\ lpc' = "fetch")]_vars

\* C20: while no fetch has succeeded, /data answers 200 with an empty list;
\* it never answers with an error status.
C20_EmptyBeforeFirstSuccess ==
  response.handler = "serve_data" =>
    /\ response.status = 200
    /\ nextCycle = 0 => response.body = <<>>

\* /data has answered and every fetch so far, the bootstrap's and a timer's,
\* has failed.
C20_Witness ==
  /\ response.handler = "serve_data"
  /\ nextCycle = 0
  /\ \E t \in Threads : t # MainThread /\ thr[t].at = "failed"

\* ---------------------------------------------------------- aggregation
\* No row of the cycle's frame has valid coordinates.
NoValidCoordinates == \A i \in DOMAIN obs : obs[i].loc = "nowhere"
RowsFor(n) == {k \in DOMAIN out.rows : out.rows[k].name = n}
OnePerRegion ==
  /\ out.kind = "frame"
  /\ Len(out.rows) = Len(regionsFile)
  /\ \A i \in DOMAIN regionsFile : Cardinality(RowsFor(regionsFile[i].name)) = 1
\* The feature of the regions file a row of the frame belongs to.
FeatureOf(row) == regionsFile[CHOOSE i \in DOMAIN regionsFile :
                                regionsFile[i].name = row.name]
\* The rows of the cycle's frame that lie within region n.
Matched(n) == {i \in DOMAIN obs : obs[i].loc = n}
NonNull(n, c) == {i \in Matched(n) : obs[i][c] # Null}
SumOver(S, c) == SumSeq([i \in DOMAIN obs |-> IF i \in S THEN obs[i][c] ELSE 0])

\* C21 as stated: for every frame and regions file, the empty frame and the
\* frame without valid coordinates included, aggregate_regions produces
\* exactly one aggregate per region.
C21_OnePerRegionAlways == out # NotRun => OnePerRegion

\* C21: for every frame with at least one row of valid coordinates,
\* aggregate_regions produces exactly one aggregate per region of the file;
\* for a frame without one it raises ValueError and produces none.
C21_OnePerRegionWhenValid ==
  out # NotRun =>
    IF NoValidCoordinates THEN out = ValueError ELSE OnePerRegion

\* Two regions, every station with coordinates outside both: still two rows.
C21_Witness ==
  /\ out.kind = "frame"
  /\ Len(regionsFile) = 2
  /\ Len(out.rows) = 2
  /\ \A i \in DOMAIN obs : obs[i].loc \in {"outside", "nowhere"}

\* C22: when no row of the cycle has valid coordinates aggregate_regions
\* raises and the cycle writes nothing: the local snapshot, the history
\* document and the S3 and GitHub copies stay as they were.
C22_NoValidCoordinatesRaises ==
  (Aggregating /\ NoValidCoordinates /\ out # NotRun) =>
    /\ out = ValueError
    /\ lpc = "failed"
    /\ localSnapshot = Absent
    /\ regionHistory = Absent
    /\ \A a \in Artifacts : s3Store[a] = 0 /\ ghStore[a].version = 0

\* A frame of two rows, neither with coordinates, has been aggregated.
C22_Witness ==
  /\ Aggregating
  /\ Len(obs) = 2
  /\ NoValidCoordinates
  /\ out = ValueError
  /\ lpc = "failed"

\* C23: in every row of the frame the scalar means are the mean of the
\* region's non-null values and 0 without one, stations_count is the number
\* of stations within the region, and the direction mean is null exactly
\* when the region has no non-null direction.
C23_RegionStatistics ==
  out.kind = "frame" =>
    \A k \in DOMAIN out.rows :
      LET row == out.rows[k]
          n == row.name
      IN /\ row.stations_count = Cardinality(Matched(n))
         /\ IF NonNull(n, "qg") = {} THEN row.qg_mean = 0
            ELSE row.qg_mean * Cardinality(NonNull(n, "qg"))
                   = SumOver(NonNull(n, "qg"), "qg")
         /\ IF NonNull(n, "ff") = {} THEN row.wind_speed_mean = 0
            ELSE row.wind_speed_mean * Cardinality(NonNull(n, "ff"))
                   = SumOver(NonNull(n, "ff"), "ff")
         /\ (NonNull(n, "dd") = {}) <=> (row.wind_direction_mean = NoAngle)

\* A region with two stations, one without qg and neither with a direction,
\* next to a region without a station.
C23_Witness ==
  /\ out.kind = "frame"
  /\ \E k, l \in DOMAIN out.rows :
       /\ out.rows[k].stations_count = 2
       /\ Cardinality(NonNull(out.rows[k].name, "qg")) = 1
       /\ out.rows[k].qg_mean = 2
       /\ out.rows[k].wind_direction_mean = NoAngle
       /\ out.rows[l].stations_count = 0
       /\ out.rows[l].qg_mean = 0

\* C24: the circular mean of a region's directions lies in [0, 360); the
\* mean of 10 and 350 is 0 within 0.01; the mean of one direction is that
\* direction.
C24_CircularMeanLaw ==
  out.kind = "frame" =>
    \A k \in DOMAIN out.rows :
      LET a == out.rows[k].wind_direction_mean
          dd == NonNull(out.rows[k].name, "dd")
      IN a # NoAngle =>
           /\ a.deg >= 0 /\ a.deg < 360 /\ ~IsNegative(a)
           /\ {obs[i].dd : i \in dd} = {10, 350} => a.deg = 0
           /\ \A x \in Dirs : {obs[i].dd : i \in dd} = {x} => a = [deg |-> x, eps |-> 0]

\* C25: the rows of the frame are sorted by region name.
C25_SortedByRegion ==
  out.kind = "frame" =>
    \A k, l \in DOMAIN out.rows :
      k < l => \E i, j \in DOMAIN RegionNames :
                 /\ RegionNames[i] = out.rows[k].name
                 /\ RegionNames[j] = out.rows[l].name
                 /\ i <= j

\* C26: a row carries estimated_output_mw = capacity * qg_mean / 1000 when
\* its region has solar_capacity_mw, and no estimated_output_mw when it has
\* not.
C26_EstimatedOutput ==
  out.kind = "frame" =>
    \A k \in DOMAIN out.rows :
      LET row == out.rows[k]
          f == FeatureOf(row)
      IN IF f.capacity # NoCap
         THEN /\ "estimated_output_mw" \in DOMAIN row
              /\ row.estimated_output_mw * 1000 = f.capacity * row.qg_mean
         ELSE "estimated_output_mw" \notin DOMAIN row

\* main of fetch_station_metrics has no handler: an exception of _run leaves
\* the script with a traceback.
ProcessTerminated == program = "station_store" /\ wpc.at = "failed"

\* C27: no error of a cycle terminates the process of an entry point that
\* runs cycles.
C27_ErrorsSurvived == ~ProcessTerminated

\* C28: a shutdown never ends a cycle that has started: the loop is never
\* interrupted inside run_once and no thread is ended inside _refresh_once.
C28_CancellationRaceFree ==
  [][/\ (lpc' = "interrupted" /\ lpc # "interrupted") => lpc \notin RunOnceStages
     /\ \A t \in Threads :
          (thr'[t].at = "killed" /\ thr[t].at # "killed") =>
            thr[t].at \notin RefreshStages]_vars

\* C29: for every max_points >= 0 the update functions are called with, 0
\* included, every window of every persisted document has at most max_points
\* entries.
C29_BoundedForAnyMaxPoints ==
  max_points >= 0 => \A w \in AllWindows : Len(w) <= max_points

\* The entities of a batch.
StationsIn(df) == {df[i].station : i \in DOMAIN df}
NamesIn(regions) == {regions[i].name : i \in DOMAIN regions}
\* The "stations" object of the persisted station history.
PersistedStations(file) == IF file.kind = "doc" THEN file.stations ELSE EmptyMap

\* C30: whatever batch the next update ingests, every station and every
\* region of the persisted document that is not in the batch is in the newly
\* persisted document with the same record.
C30_AbsentEntitiesCarriedOver ==
  /\ DOMAIN PersistedStations(stationJson) # {} =>
       \A df \in StationFrames : \A now \in Clock(df) :
         LET old == PersistedStations(stationJson)
             stations == update_station_history(stationJson, df, now, max_points)
             new == PersistedStations(persist_station_history(stations))
             geo == persist_station_history_geojson(stations, max_points)
         IN \A s \in DOMAIN old \ StationsIn(df) :
              /\ s \in DOMAIN new
              /\ new[s] = old[s]
              /\ \E i \in DOMAIN geo.features :
                   /\ geo.features[i].station = s
                   /\ geo.features[i].history = old[s].history
  /\ ExistingFeatures(regionHistory) # <<>> =>
       \A regions \in RegionFrames : \A t \in Ticks :
         LET old == FeatureMap(ExistingFeatures(regionHistory))
             new == FeatureMap(update_region_history(regionHistory, regions,
                                 IsoFormat(t), max_points).features)
         IN \A n \in DOMAIN old \ NamesIn(regions) :
              n \in DOMAIN new /\ new[n] = old[n]

\* A document of two stations whose windows differ in length: some update
\* ingested one of them without the other.
C30_Witness ==
  /\ program = "station_history"
  /\ DOMAIN PersistedStations(stationJson) = Range(StationIds)
  /\ Len(PersistedStations(stationJson)[StationIds[1]].history) = 1
  /\ Len(PersistedStations(stationJson)[StationIds[2]].history) = 2

\* The loop is between two cycles, or has ended.
CycleEnded == Regions /\ lpc \in {"after", "sleep", "exit"}

\* C31: at the end of every cycle, once a snapshot has been written with the
\* history configured, the latest entry of every region of the history
\* document carries the observation time of the local snapshot.
C31_SnapshotMatchesHistory ==
  (CycleEnded /\ history_out /\ localSnapshot # Absent) =>
    /\ regionHistory.kind = "doc"
    /\ \A f \in Range(ExistingFeatures(regionHistory)) :
         f.latest.observation_time = localSnapshot.observation_time

\* C32: no query assigns a column to a frame a refresh stored, and outside
\* the two writes of a refresh the stored frame is the one of the last
\* successful refresh.
C32_QueryLeavesSnapshot ==
  Graf =>
    /\ \A c \in 0..MaxCycles : frames.columns[c] = {}
    /\ (\A t \in Threads : thr[t].at # "write_ts") => latest_df = last_refresh

\* /data has answered with the stamped rows of the first refresh and a
\* later refresh has replaced the frame.
C32_Witness ==
  /\ response.handler = "serve_data"
  /\ response.df = 1
  /\ response.body # <<>>
  /\ latest_df = MaxCycles

\* C34: no query sends more than one request, and a call for a query that
\* has a stored status returns the stored row without a request, a stored
\* ERROR included.
C34_OneRequestPerQuery ==
  Geocoding =>
    /\ \A q \in Queries : geocache.requests[q] <= 1
    /\ geocache.last.before.status \in Statuses =>
         /\ ~geocache.last.contacted
         /\ geocache.last.returned = geocache.last.before

\* A query whose request ended in ERROR has been called again.
C34_Witness ==
  /\ Geocoding
  /\ geocache.last.query \in Queries
  /\ geocache.last.before.status = "ERROR"
  /\ geocache.requests[geocache.last.query] = 1

\* The observation times of the files a run has fed, and the largest m of a
\* set of instants.
FedTimes == {boot.service[boot.fed[j]].t : j \in DOMAIN boot.fed}
Newest(S, m) == {x \in S : Cardinality({y \in S : y > x}) < m}
MinOf(a, b) == IF a <= b THEN a ELSE b

\* C33: a finished bootstrap of k files has fed the k newest files oldest
\* first, one update each, and written the CSV of the newest file; when the
\* files have pairwise distinct observation times every station present in
\* all of them has min(k, N) entries, the newest ones.
C33_BootstrapOldestFirst ==
  (Bootstrapping /\ boot.at = "done") =>
    LET n == Len(boot.service)
        k == MinOf(boot.count, n)
        keep == MinOf(k, max_points)
    IN /\ boot.fed = [j \in 1..k |-> n - k + j]
       /\ boot.csv = n
       /\ Cardinality(FedTimes) = k =>
            \A s \in Range(StationIds) :
              (\A j \in DOMAIN boot.fed : s \in boot.service[boot.fed[j]].stations) =>
                /\ s \in DOMAIN PersistedStations(stationJson)
                /\ Len(PersistedStations(stationJson)[s].history) = keep
                /\ Instants(PersistedStations(stationJson)[s].history)
                     = Newest(FedTimes, keep)

====
